---- MODULE Spec2Model ----
(***************************************************************************)
(* A model of loglib's RotatingWriter (src/loglib/src/lib.rs): the level   *)
(* filter, the mutex-guarded file handle, write() with its size check, the *)
(* rotation cascade that runs after the guard has been dropped, the reopen *)
(* with its rotation marker, and the best-effort reports to the system     *)
(* logger.  The directory is modelled as names bound to inodes, so that a  *)
(* handle keeps referring to its file after that file has been renamed or  *)
(* unlinked.  Every file-system call is one step of its own.               *)
(***************************************************************************)
EXTENDS Integers, Sequences, FiniteSets, TLC

VARIABLES
    threshold,   \* GLOBAL_LOG_LEVEL
    writer,      \* writer[l]: the immutable fields of logger l's RotatingWriter
    env,         \* the scenario: callers, levels and message lengths in use, number of
                 \* calls, fault budget, and which history is kept: "files", the file
                 \* set each call starts from, "order", the order of locking, and
                 \* "set", the latest set_global_log_level; the platform of the build,
                 \* the Logger operations in use, and the modes, max_size and
                 \* max_files values the init_* calls are given
    current,     \* the inode named dir/basename, or NoFile
    archive,     \* archive[i]: the inode named dir/basename.i, or NoFile
    content,     \* content[ino]: the chunks written to the inode, oldest first
    nfiles,      \* number of inodes created so far
    file,        \* file[l]: the writer's Option<File>, an inode, or NoFile for None
    mutex,       \* mutex[l]: the thread holding self.file's lock, or NoThread
    poisoned,    \* poisoned[l]: the mutex is poisoned (a thread panicked holding it)
    pc,          \* pc[t]: where thread t is inside write()
    loc,         \* loc[t]: the locals of thread t's call
    last,        \* last[t]: what thread t's latest call did (history)
    ncalls,      \* number of write() calls made so far
    accepted,    \* the calls that passed the filter (history)
    lockOrder,   \* accepted calls, in the order they first took the lock (history)
    rotations,   \* number of calls that went through the rotation branch (history)
    bridgeLog,   \* the reports handed to the system logger, oldest first
    faults,      \* number of injected I/O failures so far
    logger,      \* logger[l]: the Logger struct, whether it has been constructed (live),
                 \* has a rotating_writer, has a system_logger
    dir,         \* the log directory exists
    registry,    \* GLOBAL_LOGGER's Option<Logger>: NoLogger, or the id of the init_*
                 \* call that installed logger[Global]
    reglock,     \* the thread holding GLOBAL_LOGGER's lock, or NoThread
    lastSet,     \* the level of the latest set_global_log_level, or NoLevel (history)
    newest       \* the latest init_* call that succeeded: its id, and whether its
                 \* Logger has a rotating_writer (history)

\* the loggers and the registry
reg == <<logger, dir, registry, reglock, newest>>

vars == <<threshold, writer, env, current, archive, content, nfiles, file, mutex,
          poisoned, pc, loc, last, ncalls, accepted, lockOrder, rotations, bridgeLog,
          faults, reg, lastSet>>

(***************************** bounds **************************************)
\* write() calls per scenario: two callers; one caller; one caller and every level;
\* one caller and failing I/O
MaxCalls == 3
SeqCalls == 5
LevelCalls == 3
FaultCalls == 3
\* calls per scenario: one caller of a Logger of each kind; one caller of
\* platform_log; one caller of the global logger; two callers of the global logger
\* and of a shared Logger
LoggerCalls == 2
BridgeCalls == 2
GlobalCalls == 3
BothCalls == 2
MarkerCalls == 3
SizeCalls == 4
\* injected I/O failures counted per scenario
MaxFaults == 1
\* the largest max_files tried
MaxArchives == 2

(************************** program constants ******************************)
Trace == 0
Debug == 1
Info == 2
Warning == 3
Error == 4
Fatal == 5
LogLevel == {Trace, Debug, Info, Warning, Error, Fatal}

DefaultLevel == 1
MIN_SIZE == 256

LOG_INFO == "LOG_INFO"
LOG_WARNING == "LOG_WARNING"
LOG_ERR == "LOG_ERR"

EVENTLOG_INFORMATION_TYPE == "EVENTLOG_INFORMATION_TYPE"
EVENTLOG_WARNING_TYPE == "EVENTLOG_WARNING_TYPE"
EVENTLOG_ERROR_TYPE == "EVENTLOG_ERROR_TYPE"

\* the fixed text of "[{}] {} PID:{} TID:{} {}" around its five arguments
FormatFixedLen == 14
\* "%Y-%m-%d %H:%M:%S%.3f"
TimestampLen == 23
\* process::id() and "{:?}" of a ThreadId, as rendered for a typical process
PidLen == 4
TidLen == 11
\* "[ROTATION] Logger restarted — " in UTF-8 (the dash takes three bytes)
HeaderFixedLen == 32
\* "UnknownApp", the app_info of Logger::file_only
UnknownAppLen == 10
\* "<app_name> v<version>" of Logger::file_and_system, for a 6-byte name and "0.1.0"
NamedAppLen == 13
\* the same for an application name of 164 bytes
LongAppLen == 170

NoFile == 0
NoThread == 0
NoLogger == 0
\* the Logger an init_* call installed before the calls that are counted
EarlierLogger == -1
NoLevel == 6
Threads == {1, 2}
\* the Logger instances: the one threads share through an Arc, and the one owned by
\* GLOBAL_LOGGER
Shared == 1
Global == 2
Loggers == {Shared, Global}
\* message lengths in use: with them a line takes 78, 127, 128 or 258 bytes at Debug
MessageLens == {20, 69, 70, 200}
Inodes == 1..(MaxCalls + SeqCalls + LevelCalls + FaultCalls + MarkerCalls + SizeCalls + 2)
ArchiveIdx == 0..(MaxArchives + 1)
\* the three constructors of Logger
Modes == {"file_only", "system_only", "file_and_system"}
\* max_size_bytes values tried by init_*: below the floor, just below it, the floor
Sizes == {0, 100, MIN_SIZE - 1, MIN_SIZE}

(****************************** pure functions *****************************)
\* LogLevel::as_str, by its length
AsStrLen(level) ==
    CASE level = Trace -> 5
      [] level = Debug -> 5
      [] level = Info -> 4
      [] level = Warning -> 7
      [] level = Error -> 5
      [] level = Fatal -> 5

\* (a mapping that reports errors one severity too low)
ToSyslogLevelLow(level) ==
    IF level \in {Trace, Debug, Info} THEN LOG_INFO ELSE LOG_WARNING

\* LogLevel::to_syslog_level
ToSyslogLevel(level) ==
    IF level \in {Trace, Debug, Info} THEN LOG_INFO
    ELSE IF level = Warning THEN LOG_WARNING
    ELSE LOG_ERR

\* (a mapping that files Info under the next level up)
ToWinlogLevelHigh(level) ==
    CASE level = Trace -> "winlog::Trace"
      [] level = Debug -> "winlog::Debug"
      [] level \in {Info, Warning} -> "winlog::Warning"
      [] level \in {Error, Fatal} -> "winlog::Error"

\* LogLevel::to_winlog_level: the level of winlog_rs the core hands to the bridge
ToWinlogLevel(level) ==
    CASE level = Trace -> "winlog::Trace"
      [] level \in {Debug, Info} -> "winlog::Debug"
      [] level = Warning -> "winlog::Warning"
      [] level \in {Error, Fatal} -> "winlog::Error"

\* winlog_rs::LogLevel::to_event_type
ToEventType(wlevel) ==
    CASE wlevel \in {"winlog::Trace", "winlog::Debug", "winlog::Info"} ->
             EVENTLOG_INFORMATION_TYPE
      [] wlevel = "winlog::Warning" -> EVENTLOG_WARNING_TYPE
      [] wlevel \in {"winlog::Error", "winlog::Fatal"} -> EVENTLOG_ERROR_TYPE

\* (a cast that is off by one)
AsUsizeNext(level) == level + 1

\* level as usize: the discriminant of the enum, Trace = 0 .. Fatal = 5
AsUsize(level) == level

\* (a filter that also drops the threshold's own level)
ShouldLogStrict(level, thr) == level > thr

\* should_log: (level as usize) >= GLOBAL_LOG_LEVEL
ShouldLog(level, thr) == AsUsize(level) >= thr

\* format_log_line, by its length (without the newline writeln! adds)
FormatLogLineLen(level, mlen) ==
    FormatFixedLen + TimestampLen + AsStrLen(level) + PidLen + TidLen + mlen

\* the message of the rotation marker: "[ROTATION] Logger restarted — {app_info}"
HeaderLen(app_info_len) == HeaderFixedLen + app_info_len

RECURSIVE SumLen(_)
SumLen(s) == IF s = <<>> THEN 0 ELSE Head(s).len + SumLen(Tail(s))

\* the size of an inode: what seek(SeekFrom::End(0)) returns on success
Size(ino) == SumLen(content[ino])

\* (a seek whose error is unwrapped: the thread panics holding the guard)
SeekEndUnwrap(ok, ino) == [panic |-> ~ok, pos |-> IF ok THEN SumLen(content[ino]) ELSE 0]

\* file.seek(SeekFrom::End(0)).unwrap_or(0)
SeekEnd(ok, ino) == [panic |-> FALSE, pos |-> IF ok THEN Size(ino) ELSE 0]

\* (a rotation that waits until the size has passed max_size)
NeedRotateStrict(pos, max_size) == pos > max_size

\* (a rotation that starts one byte early)
NeedRotateEarly(pos, max_size) == pos >= max_size - 1

\* pos >= self.max_size
NeedRotate(pos, max_size) == pos >= max_size

\* (a lock that never blocks)
LockFreeAlways(m) == TRUE

\* Mutex::lock blocks until no thread holds the guard
LockFree(m) == m = NoThread

\* the chunk a writeln! argument becomes: writeln!(f, "{}", line) reaches an unbuffered
\* File as two write_all calls, the line and then the newline
Chunk(c, kind, part, len) == [call |-> c, kind |-> kind, part |-> part, len |-> len]

\* (a write that lands at the start of the file: a handle opened without append)
PrependChunk(seq, chunk) == <<chunk>> \o seq

\* a write to a file opened with append(true) lands at the end of the inode
AppendChunk(seq, chunk) == Append(seq, chunk)

\* (a shifting loop that starts one index too low)
ShiftStartLow(max_files) == max_files - 2

\* the first index of rotate's shifting loop, (1..max_files).rev(): max_files - 1
ShiftStart(max_files) == max_files - 1

\* the archive rotate deletes first: basename.{max_files}
OldestIdx(max_files) == max_files

\* the archive the active file is renamed to: basename.1
FirstIdx == 1

\* fs::remove_file on an archive name: unbinds it (the inode lives on for open handles)
RemoveFile(arch, idx, ok) == IF ok THEN [arch EXCEPT ![idx] = NoFile] ELSE arch

\* (a rename that leaves the source name in place: a copy)
RenameCopy(arch, src, dst) == [arch EXCEPT ![dst] = arch[src]]

\* fs::rename(basename.src, basename.dst): dst names what src named, src is gone
Rename(arch, src, dst) == [arch EXCEPT ![dst] = arch[src], ![src] = NoFile]

\* fs::rename succeeds only if the source name exists (and the call itself does not fail)
RenameOk(src_ino, ok) == ok /\ src_ino # NoFile

\* the outcomes an I/O call may have: failures are injected within the scenario's budget
Outcomes == IF env.any_fault \/ faults < env.fault_budget THEN {TRUE, FALSE} ELSE {TRUE}

\* the count of injected failures, which stops at the budget
Fault(ok) == IF ok \/ faults >= env.fault_budget THEN faults ELSE faults + 1

\* log_to_system_impl: the severity the host's logger is given, on Linux
\* to_syslog_level, on Windows to_winlog_level and then, inside report(), to_event_type
HostSeverity(level) ==
    IF env.platform = "linux" THEN ToSyslogLevel(level)
    ELSE ToEventType(ToWinlogLevel(level))

\* what the system logger receives: syslog::write(logger, severity, msg) or
\* logger.report(level, msg); locked is the holder of the writer's mutex at that time
Report(level, what, c, holder, sent) ==
    [level |-> level, severity |-> HostSeverity(level), what |-> what, call |-> c,
     locked |-> holder, sent |-> sent]

\* log_to_system: one report to the system logger, if the writer has one; whether the
\* logger delivered it (sent) is ignored: let _ = syslog::write(..)
LogToSystem(log, l, level, what, c, sent) ==
    IF writer[l].system_logger
    THEN Append(log, Report(level, what, c, mutex[l], sent))
    ELSE log

\* the outcomes of a report: none to choose when no report is made
BridgeOutcomes(l, reporting) ==
    IF reporting /\ writer[l].system_logger THEN BOOLEAN ELSE {TRUE}

\* the record of a call: its arguments, the threshold and the file set it started
\* from, and what it went through
NoCall ==
    [call |-> 0, level |-> Debug, mlen |-> 0, thr |-> DefaultLevel, accepted |-> FALSE,
     returned |-> TRUE, rotated |-> FALSE, rot_err |-> FALSE, reopen_err |-> FALSE,
     io_failed |-> FALSE, hdr_err |-> FALSE, msg_err |-> FALSE,
     msg_chunks |-> 0, hdr_chunks |-> 0, seen_pos |-> 0,
     pre_current |-> NoFile, pre_archive |-> <<>>, pre_content |-> <<>>,
     set |-> NoLevel, op |-> "none", result |-> "Ok", reached |-> NoLogger,
     pre_dir |-> FALSE, pre_file |-> NoFile, pre_registry |-> NoLogger,
     pre_bridge |-> 0, mode |-> "none", max_size |-> 0]

NoLocals ==
    [lg |-> Shared, call |-> 0, level |-> Debug, mlen |-> 0, i |-> 0, err |-> FALSE,
     f |-> NoFile, op |-> "none", mode |-> "none", max_size |-> 0, max_files |-> 0,
     sys |-> FALSE]

\* a Logger that has not been constructed
NoLoggerStruct == [live |-> FALSE, rotating_writer |-> FALSE, system_logger |-> FALSE]

\* the Logger of file_only or file_and_system around writer w
LoggerOf(w) == [live |-> TRUE, rotating_writer |-> TRUE, system_logger |-> w.system_logger]

\* the fields of a logger that has no RotatingWriter (rotating_writer: None)
NoWriter ==
    [max_size |-> 0, max_files |-> 0, system_logger |-> FALSE, app_info_len |-> 0]

(******************************* initial states ****************************)
\* the directory before the first constructor runs: absent, or there and empty
NoDisk ==
    [dir |-> FALSE, current |-> NoFile, archive |-> [i \in ArchiveIdx |-> NoFile],
     content |-> [ino \in Inodes |-> <<>>], nfiles |-> 0]

EmptyDisk == [NoDisk EXCEPT !.dir = TRUE]

\* the directory after RotatingWriter::new has run on it first: basename, empty
FreshDisk == [EmptyDisk EXCEPT !.current = 1, !.nfiles = 1]

\* the line an earlier run of the program left: a message of the longest length
EarlierLine ==
    <<Chunk(0, "msg", "body", FormatLogLineLen(Debug, 200)), Chunk(0, "msg", "nl", 1)>>

\* the directory an earlier run left and a constructor has opened: basename with one
\* line, which is over MIN_SIZE, and an archive basename.1 with one line
UsedDisk ==
    [EmptyDisk EXCEPT !.current = 1, !.nfiles = 2,
                      !.archive = [i \in ArchiveIdx |-> IF i = 1 THEN 2 ELSE NoFile],
                      !.content = [ino \in Inodes |->
                                     IF ino \in {1, 2} THEN EarlierLine ELSE <<>>]]

\* the state with the shared Logger lgr and its writer w, the directory as given,
\* and GLOBAL_LOGGER holding g: nothing, or a file-only Logger with the same settings
\* that an earlier init_* call installed
InitLoggers(e, lgr, w, g, disk) ==
    /\ threshold = DefaultLevel
    /\ writer = [l \in Loggers |-> IF l = Shared \/ g # NoLogger THEN w ELSE NoWriter]
    /\ env = e
    /\ current = disk.current
    /\ archive = disk.archive
    /\ content = disk.content
    /\ nfiles = disk.nfiles
    /\ file = [l \in Loggers |->
                 IF (l = Shared \/ g # NoLogger) /\ lgr.rotating_writer
                 THEN disk.current ELSE NoFile]
    /\ mutex = [l \in Loggers |-> NoThread]
    /\ poisoned = [l \in Loggers |-> FALSE]
    /\ pc = [t \in Threads |-> "idle"]
    /\ loc = [t \in Threads |-> NoLocals]
    /\ last = [t \in Threads |-> NoCall]
    /\ ncalls = 0
    /\ accepted = {}
    /\ lockOrder = <<>>
    /\ rotations = 0
    /\ bridgeLog = <<>>
    /\ faults = 0
    /\ logger = [l \in Loggers |->
                   IF l = Shared \/ g # NoLogger THEN lgr ELSE NoLoggerStruct]
    /\ dir = disk.dir
    /\ registry = g
    /\ reglock = NoThread
    /\ lastSet = NoLevel
    /\ newest = [id |-> g, rotating_writer |-> g # NoLogger /\ lgr.rotating_writer]

\* the state before any init_* call
InitState(e, lgr, w, disk) == InitLoggers(e, lgr, w, NoLogger, disk)

\* RotatingWriter::new on a fresh directory: basename is created empty and opened
InitWith(e, w) == InitState(e, LoggerOf(w), w, FreshDisk)

\* the writers new() accepts: max_size >= MIN_SIZE, any max_files
Writers(sizes, counts, bridges) ==
    {[max_size |-> s, max_files |-> n, system_logger |-> b,
      app_info_len |-> IF b THEN NamedAppLen ELSE UnknownAppLen] :
        s \in {x \in sizes : x >= MIN_SIZE}, n \in counts, b \in bridges}

(********************************* actions *********************************)
\* set_global_log_level
SetLevel(level) ==
    /\ level \in env.thresholds
    /\ threshold' = AsUsize(level)
    /\ lastSet' = IF "set" \in env.history THEN level ELSE lastSet
    /\ UNCHANGED <<writer, env, reg, current, archive, content, nfiles, file, mutex, poisoned,
                   pc, loc, last, ncalls, accepted, lockOrder, rotations, bridgeLog, faults>>

\* the call record a Logger operation starts with: its arguments and, when that
\* history is kept, the state it starts from
Begin(c, op, level, mlen) ==
    [NoCall EXCEPT !.call = c, !.op = op, !.level = level, !.mlen = mlen,
                   !.thr = threshold, !.set = lastSet, !.returned = FALSE,
                   !.pre_current = IF "files" \in env.history THEN current ELSE NoFile,
                   !.pre_archive = IF "files" \in env.history THEN archive ELSE <<>>,
                   !.pre_content = IF "files" \in env.history THEN content ELSE <<>>,
                   !.pre_dir = IF "files" \in env.history THEN dir ELSE FALSE,
                   !.pre_file = IF "files" \in env.history THEN file[Shared] ELSE NoFile,
                   !.pre_registry = IF "files" \in env.history THEN registry ELSE NoLogger,
                   !.pre_bridge = IF "files" \in env.history THEN Len(bridgeLog) ELSE 0]

\* (a log() that writes at Info)
LogSeverityInfo == Info

\* Logger::log, line 351: the severity it passes to write_to_file
LogSeverity == Debug

\* where a thread goes when write() returns: to its caller, or, in a global macro,
\* to the end of the if-let that holds GLOBAL_LOGGER's guard
AfterWrite(t) == IF loc[t].lg = Global THEN "g_unlock" ELSE "idle"

\* Logger::write_to_file on the shared Logger, lines 365-369, and write(), lines
\* 123-126: without a rotating_writer nothing happens; with one, the filter, and a
\* rejected call returns at once
WriteToFile(t, op, level, mlen) ==
    /\ t \in env.threads
    /\ pc[t] = "idle"
    /\ ncalls < env.calls
    /\ logger[Shared].live
    /\ mlen \in env.mlens
    /\ ncalls' = ncalls + 1
    /\ LET passes == logger[Shared].rotating_writer /\ ShouldLog(level, threshold) IN
       /\ accepted' = IF passes THEN accepted \cup {ncalls + 1} ELSE accepted
       /\ last' = [last EXCEPT ![t] =
                     [Begin(ncalls + 1, op, level, mlen) EXCEPT
                          !.accepted = passes, !.returned = ~passes]]
       /\ IF passes
          THEN /\ pc' = [pc EXCEPT ![t] = "lock"]
               /\ loc' = [loc EXCEPT ![t] =
                            [NoLocals EXCEPT !.call = ncalls + 1, !.level = level,
                                             !.mlen = mlen, !.op = op]]
          ELSE UNCHANGED <<pc, loc>>
    /\ UNCHANGED <<threshold, writer, env, reg, lastSet, current, archive, content, nfiles,
                   file, mutex, poisoned, lockOrder, rotations, bridgeLog, faults>>

\* the macros trace! .. fatal!, lines 392-427: logger.write_to_file(level, message)
WriteCall(t, level, mlen) ==
    /\ "write_to_file" \in env.ops
    /\ level \in env.levels
    /\ WriteToFile(t, "write_to_file", level, mlen)

\* Logger::log, lines 346-352: write_to_file at LogSeverity
LogCall(t, mlen) ==
    /\ "log" \in env.ops
    /\ WriteToFile(t, "log", LogSeverity, mlen)

\* line 128: self.file.lock().unwrap()
Lock(t) ==
    /\ pc[t] = "lock"
    /\ LockFree(mutex[loc[t].lg])
    /\ IF poisoned[loc[t].lg]
       THEN /\ pc' = [pc EXCEPT ![t] = "panicked"]
            /\ UNCHANGED <<mutex, lockOrder>>
       ELSE /\ mutex' = [mutex EXCEPT ![loc[t].lg] = t]
            /\ pc' = [pc EXCEPT ![t] = "seek"]
            /\ lockOrder' = IF "order" \in env.history
                            THEN Append(lockOrder, loc[t].call) ELSE lockOrder
    /\ UNCHANGED <<threshold, writer, env, reg, lastSet, current, archive, content, nfiles, file,
                   poisoned, loc, last, ncalls, accepted, rotations, bridgeLog, faults>>

\* lines 131-139: the size check; on need_rotate the guard is dropped
SizeCheck(t) ==
    /\ pc[t] = "seek"
    /\ \E ok \in Outcomes :
         LET r == IF file[loc[t].lg] # NoFile THEN SeekEnd(ok, file[loc[t].lg]) ELSE [panic |-> FALSE, pos |-> 0]
             need_rotate == file[loc[t].lg] # NoFile /\ NeedRotate(r.pos, writer[loc[t].lg].max_size)
         IN  /\ faults' = IF file[loc[t].lg] # NoFile THEN Fault(ok) ELSE faults
             /\ IF r.panic
                THEN /\ pc' = [pc EXCEPT ![t] = "panicked"]
                     /\ mutex' = [mutex EXCEPT ![loc[t].lg] = NoThread]
                     /\ poisoned' = [poisoned EXCEPT ![loc[t].lg] = TRUE]
                     /\ UNCHANGED <<last, rotations>>
                ELSE /\ poisoned' = poisoned
                     /\ last' = [last EXCEPT ![t].rotated = need_rotate,
                                             ![t].io_failed = @ \/ (file[loc[t].lg] # NoFile /\ ~ok),
                                             ![t].seen_pos = r.pos]
                     /\ IF need_rotate
                        THEN /\ mutex' = [mutex EXCEPT ![loc[t].lg] = NoThread]
                             /\ pc' = [pc EXCEPT ![t] = "rot_rm_old"]
                             /\ rotations' = rotations + 1
                        ELSE /\ mutex' = mutex
                             /\ pc' = [pc EXCEPT ![t] = "wr_body"]
                             /\ rotations' = rotations
    /\ UNCHANGED <<threshold, writer, env, reg, lastSet, current, archive, content, nfiles, file,
                   loc, ncalls, accepted, lockOrder, bridgeLog>>

\* rotate(), lines 215-218: let _ = fs::remove_file(basename.{max_files})
RemoveOldest(t) ==
    /\ pc[t] = "rot_rm_old"
    /\ \E ok \in Outcomes :
         /\ archive' = RemoveFile(archive, OldestIdx(writer[loc[t].lg].max_files), ok)
         /\ faults' = Fault(ok)
         /\ last' = [last EXCEPT ![t].io_failed = @ \/ ~ok]
    /\ loc' = [loc EXCEPT ![t].i = ShiftStart(writer[loc[t].lg].max_files)]
    /\ pc' = [pc EXCEPT ![t] = "rot_loop"]
    /\ UNCHANGED <<threshold, writer, env, reg, lastSet, current, content, nfiles, file, mutex, poisoned,
                   ncalls, accepted, lockOrder, rotations, bridgeLog>>

\* lines 221-223: the loop head and src.exists()
ShiftExists(t) ==
    /\ pc[t] = "rot_loop"
    /\ IF loc[t].i >= 1
       THEN IF archive[loc[t].i] # NoFile
            THEN /\ pc' = [pc EXCEPT ![t] = "rot_rm_dst"]
                 /\ loc' = loc
            ELSE /\ pc' = pc
                 /\ loc' = [loc EXCEPT ![t].i = @ - 1]
       ELSE /\ pc' = [pc EXCEPT ![t] = "cur_exists"]
            /\ loc' = loc
    /\ UNCHANGED <<threshold, writer, env, reg, lastSet, current, archive, content, nfiles, file, mutex,
                   poisoned, last, ncalls, accepted, lockOrder, rotations, bridgeLog, faults>>

\* line 225: let _ = fs::remove_file(&dst), dst = basename.{i+1}
ShiftRemove(t) ==
    /\ pc[t] = "rot_rm_dst"
    /\ \E ok \in Outcomes :
         /\ archive' = RemoveFile(archive, loc[t].i + 1, ok)
         /\ faults' = Fault(ok)
         /\ last' = [last EXCEPT ![t].io_failed = @ \/ ~ok]
    /\ pc' = [pc EXCEPT ![t] = "rot_mv"]
    /\ UNCHANGED <<threshold, writer, env, reg, lastSet, current, content, nfiles, file, mutex, poisoned,
                   loc, ncalls, accepted, lockOrder, rotations, bridgeLog>>

\* (a cascade that goes on with the loop after a failed rename)
AfterRenameErrGoOn == "rot_loop"

\* lines 227 and 238: return Err(e)
AfterRenameErr == "rot_done"

\* lines 226-228: fs::rename(basename.i, basename.{i+1}); an error ends the cascade
ShiftRename(t) ==
    /\ pc[t] = "rot_mv"
    /\ \E ok \in Outcomes :
         LET i == loc[t].i IN
         /\ faults' = Fault(ok)
         /\ last' = [last EXCEPT ![t].io_failed = @ \/ ~ok]
         /\ IF RenameOk(archive[i], ok)
            THEN /\ archive' = Rename(archive, i, i + 1)
                 /\ loc' = [loc EXCEPT ![t].i = i - 1]
                 /\ pc' = [pc EXCEPT ![t] = "rot_loop"]
            ELSE /\ archive' = archive
                 /\ loc' = [loc EXCEPT ![t].err = TRUE]
                 /\ pc' = [pc EXCEPT ![t] = AfterRenameErr]
    /\ UNCHANGED <<threshold, writer, env, reg, lastSet, current, content, nfiles, file, mutex, poisoned,
                   ncalls, accepted, lockOrder, rotations, bridgeLog>>

\* lines 233-234: current.exists()
CurrentExists(t) ==
    /\ pc[t] = "cur_exists"
    /\ pc' = [pc EXCEPT ![t] = IF current # NoFile THEN "cur_rm" ELSE "rot_done"]
    /\ UNCHANGED <<threshold, writer, env, reg, lastSet, current, archive, content, nfiles, file, mutex,
                   poisoned, loc, last, ncalls, accepted, lockOrder, rotations, bridgeLog, faults>>

\* line 236: let _ = fs::remove_file(basename.1)
CurrentRemove(t) ==
    /\ pc[t] = "cur_rm"
    /\ \E ok \in Outcomes :
         /\ archive' = RemoveFile(archive, FirstIdx, ok)
         /\ faults' = Fault(ok)
         /\ last' = [last EXCEPT ![t].io_failed = @ \/ ~ok]
    /\ pc' = [pc EXCEPT ![t] = "cur_mv"]
    /\ UNCHANGED <<threshold, writer, env, reg, lastSet, current, content, nfiles, file, mutex, poisoned,
                   loc, ncalls, accepted, lockOrder, rotations, bridgeLog>>

\* lines 237-239: fs::rename(basename, basename.1)
CurrentRename(t) ==
    /\ pc[t] = "cur_mv"
    /\ \E ok \in Outcomes :
         /\ faults' = Fault(ok)
         /\ last' = [last EXCEPT ![t].io_failed = @ \/ ~ok]
         /\ IF RenameOk(current, ok)
            THEN /\ archive' = [archive EXCEPT ![FirstIdx] = current]
                 /\ current' = NoFile
                 /\ loc' = loc
            ELSE /\ archive' = archive
                 /\ current' = current
                 /\ loc' = [loc EXCEPT ![t].err = TRUE]
    /\ pc' = [pc EXCEPT ![t] = "rot_done"]
    /\ UNCHANGED <<threshold, writer, env, reg, lastSet, content, nfiles, file, mutex, poisoned,
                   ncalls, accepted, lockOrder, rotations, bridgeLog>>

\* lines 141-143: rotate() has returned; its error goes to the system logger
RotateReturn(t) ==
    /\ pc[t] = "rot_done"
    /\ \E sent \in BridgeOutcomes(loc[t].lg, loc[t].err) :
         bridgeLog' = IF loc[t].err
                      THEN LogToSystem(bridgeLog, loc[t].lg, Error, "rotate", loc[t].call, sent)
                      ELSE bridgeLog
    /\ last' = [last EXCEPT ![t].rot_err = loc[t].err]
    /\ pc' = [pc EXCEPT ![t] = "relock"]
    /\ UNCHANGED <<threshold, writer, env, reg, lastSet, current, archive, content, nfiles, file, mutex,
                   poisoned, loc, ncalls, accepted, lockOrder, rotations, faults>>

\* line 145: self.file.lock().unwrap(), the second time
Relock(t) ==
    /\ pc[t] = "relock"
    /\ LockFree(mutex[loc[t].lg])
    /\ IF poisoned[loc[t].lg]
       THEN /\ pc' = [pc EXCEPT ![t] = "panicked"]
            /\ mutex' = mutex
       ELSE /\ mutex' = [mutex EXCEPT ![loc[t].lg] = t]
            /\ pc' = [pc EXCEPT ![t] = "reopen"]
    /\ UNCHANGED <<threshold, writer, env, reg, lastSet, current, archive, content, nfiles, file,
                   poisoned, loc, last, ncalls, accepted, lockOrder, rotations, bridgeLog, faults>>

\* (a failed reopen that clears the stored handle)
ClearHandle(old) == NoFile

\* lines 146-151: on Err the match returns before the assignment to *file_lock, so
\* the stored handle stays the one from before the rotation
HandleAfterReopenErr(old) == old

\* reopen(), lines 184-198, called from reopen_with_header() at line 201, and the
\* Err arm of write(), lines 148-151: open basename with create(true).append(true);
\* a failure is reported twice and the call returns, the stored handle untouched
Reopen(t) ==
    /\ pc[t] = "reopen"
    /\ \E ok \in Outcomes :
         /\ faults' = Fault(ok)
         /\ IF ok
            THEN /\ IF current = NoFile
                    THEN /\ current' = nfiles + 1
                         /\ nfiles' = nfiles + 1
                    ELSE UNCHANGED <<current, nfiles>>
                 /\ loc' = [loc EXCEPT ![t].f = current']
                 /\ pc' = [pc EXCEPT ![t] = "hdr_body"]
                 /\ UNCHANGED <<mutex, bridgeLog, last, file>>
            ELSE /\ \E sent1, sent2 \in BridgeOutcomes(loc[t].lg, TRUE) :
                      bridgeLog' =
                        LogToSystem(LogToSystem(bridgeLog, loc[t].lg, Error, "reopen_file",
                                                loc[t].call, sent1),
                                    loc[t].lg, Error, "reopen", loc[t].call, sent2)
                 /\ last' = [last EXCEPT ![t].io_failed = TRUE, ![t].reopen_err = TRUE,
                                         ![t].returned = TRUE]
                 /\ mutex' = [mutex EXCEPT ![loc[t].lg] = NoThread]
                 /\ pc' = [pc EXCEPT ![t] = AfterWrite(t)]
                 /\ loc' = [loc EXCEPT ![t] = NoLocals]
                 /\ file' = [file EXCEPT ![loc[t].lg] = HandleAfterReopenErr(@)]
                 /\ UNCHANGED <<current, nfiles>>
    /\ UNCHANGED <<threshold, writer, env, reg, lastSet, archive, content, poisoned, ncalls,
                   accepted, lockOrder, rotations>>

\* (a marker that has to pass the level filter)
MarkerFiltered(thr) == ShouldLog(Debug, thr)

\* reopen_with_header writes the marker with writeln!, not through write(): there is
\* no should_log on its way
MarkerPasses(thr) == TRUE

\* lines 203-206: the rotation marker's text goes to the fresh handle f
HeaderBody(t) ==
    /\ pc[t] = "hdr_body"
    /\ \E ok \in Outcomes :
         LET len == FormatLogLineLen(Debug, HeaderLen(writer[loc[t].lg].app_info_len))
             f == loc[t].f
         IN  /\ faults' = Fault(ok)
             /\ content' = IF ok /\ MarkerPasses(threshold)
                           THEN [content EXCEPT ![f] =
                                   AppendChunk(@, Chunk(loc[t].call, "hdr", "body", len))]
                           ELSE content
             /\ last' = [last EXCEPT ![t].io_failed = @ \/ ~ok,
                                     ![t].hdr_err = @ \/ ~ok,
                                     ![t].hdr_chunks = IF ok /\ MarkerPasses(threshold) THEN @ + 1 ELSE @]
             /\ pc' = [pc EXCEPT ![t] = IF ok /\ MarkerPasses(threshold) THEN "hdr_nl" ELSE "install"]
    /\ UNCHANGED <<threshold, writer, env, reg, lastSet, current, archive, nfiles, file, mutex, poisoned,
                   loc, ncalls, accepted, lockOrder, rotations, bridgeLog>>

\* lines 206-207: the marker's newline, then f.flush()
HeaderNewline(t) ==
    /\ pc[t] = "hdr_nl"
    /\ \E ok \in Outcomes :
         LET f == loc[t].f
         IN  /\ faults' = Fault(ok)
             /\ content' = IF ok
                           THEN [content EXCEPT ![f] =
                                   AppendChunk(@, Chunk(loc[t].call, "hdr", "nl", 1))]
                           ELSE content
             /\ last' = [last EXCEPT ![t].io_failed = @ \/ ~ok,
                                     ![t].hdr_err = @ \/ ~ok,
                                     ![t].hdr_chunks = IF ok THEN @ + 1 ELSE @]
    /\ pc' = [pc EXCEPT ![t] = "install"]
    /\ UNCHANGED <<threshold, writer, env, reg, lastSet, current, archive, nfiles, file, mutex, poisoned,
                   loc, ncalls, accepted, lockOrder, rotations, bridgeLog>>

\* (an assignment that is lost: the writer keeps the handle it had)
KeepHandle(old, new) == old

\* *file_lock = new_file: the stored handle is replaced
Installed(old, new) == new

\* line 146: *file_lock = Some(f); the handle held until now is dropped
Install(t) ==
    /\ pc[t] = "install"
    /\ file' = [file EXCEPT ![loc[t].lg] = Installed(@, loc[t].f)]
    /\ pc' = [pc EXCEPT ![t] = "wr_body"]
    /\ UNCHANGED <<threshold, writer, env, reg, lastSet, current, archive, content, nfiles, mutex,
                   poisoned, loc, last, ncalls, accepted, lockOrder, rotations, bridgeLog, faults>>

\* lines 155-157 and 162-164: the formatted line goes to the stored handle; if the
\* write fails writeln! stops, flush follows and the call returns
WriteBody(t) ==
    /\ pc[t] = "wr_body"
    /\ \E ok \in Outcomes :
         LET len == FormatLogLineLen(loc[t].level, loc[t].mlen)
             done == file[loc[t].lg] = NoFile \/ ~ok
         IN  /\ faults' = IF file[loc[t].lg] # NoFile THEN Fault(ok) ELSE faults
             /\ content' = IF ~done
                           THEN [content EXCEPT ![file[loc[t].lg]] =
                                   AppendChunk(@, Chunk(loc[t].call, "msg", "body", len))]
                           ELSE content
             /\ last' = [last EXCEPT ![t].io_failed = @ \/ (file[loc[t].lg] # NoFile /\ ~ok),
                                     ![t].msg_err = @ \/ (file[loc[t].lg] # NoFile /\ ~ok),
                                     ![t].msg_chunks = IF ~done THEN @ + 1 ELSE @,
                                     ![t].returned = done]
             /\ pc' = [pc EXCEPT ![t] = IF done THEN AfterWrite(t) ELSE "wr_nl"]
             /\ mutex' = [mutex EXCEPT ![loc[t].lg] = IF done THEN NoThread ELSE mutex[loc[t].lg]]
             /\ loc' = IF done THEN [loc EXCEPT ![t] = NoLocals] ELSE loc
    /\ UNCHANGED <<threshold, writer, env, reg, lastSet, current, archive, nfiles, file, poisoned,
                   ncalls, accepted, lockOrder, rotations, bridgeLog>>

\* lines 157-159 and 164-167: the newline, file.flush(), and the guard goes out of scope
WriteNewline(t) ==
    /\ pc[t] = "wr_nl"
    /\ \E ok \in Outcomes :
         /\ faults' = Fault(ok)
         /\ content' = IF ok
                       THEN [content EXCEPT ![file[loc[t].lg]] =
                               AppendChunk(@, Chunk(loc[t].call, "msg", "nl", 1))]
                       ELSE content
         /\ last' = [last EXCEPT ![t].io_failed = @ \/ ~ok,
                                 ![t].msg_err = @ \/ ~ok,
                                 ![t].msg_chunks = IF ok THEN @ + 1 ELSE @,
                                 ![t].returned = TRUE]
    /\ pc' = [pc EXCEPT ![t] = AfterWrite(t)]
    /\ mutex' = [mutex EXCEPT ![loc[t].lg] = NoThread]
    /\ loc' = [loc EXCEPT ![t] = NoLocals]
    /\ UNCHANGED <<threshold, writer, env, reg, lastSet, current, archive, nfiles, file, poisoned,
                   ncalls, accepted, lockOrder, rotations, bridgeLog>>

\* (a platform_log that reports whether or not there is a system logger)
BridgeAlways(lgr) == TRUE

\* Logger::platform_log, line 355: system_logger.is_none() returns at once
BridgePresent(lgr) == lgr.system_logger

\* Logger::platform_log on the shared Logger, lines 354-363: with a system logger and
\* a level that passes the filter, one report through Logger::log_to_system
PlatformLog(t, level) ==
    /\ "platform_log" \in env.ops
    /\ t \in env.threads
    /\ pc[t] = "idle"
    /\ ncalls < env.calls
    /\ logger[Shared].live
    /\ level \in env.levels
    /\ ncalls' = ncalls + 1
    /\ LET reports == BridgePresent(logger[Shared]) /\ ShouldLog(level, threshold) IN
       /\ \E sent \in IF reports THEN BOOLEAN ELSE {TRUE} :
            bridgeLog' = IF reports
                         THEN Append(bridgeLog, Report(level, "platform_log", ncalls + 1,
                                                       mutex[Shared], sent))
                         ELSE bridgeLog
       /\ last' = [last EXCEPT ![t] =
                     [Begin(ncalls + 1, "platform_log", level, 0) EXCEPT
                          !.returned = TRUE]]
    /\ UNCHANGED <<threshold, writer, env, reg, lastSet, current, archive, content, nfiles,
                   file, mutex, poisoned, pc, loc, accepted, lockOrder, rotations, faults>>

\* a global macro, glog! or gtrace! .. gfatal!, lines 431-486, is entered: the thread
\* goes for GLOBAL_LOGGER's lock
GlobalCall(t, op, level, mlen) ==
    /\ op \in env.ops \cap {"glog", "gwrite"}
    /\ t \in env.threads
    /\ pc[t] = "idle"
    /\ ncalls < env.calls
    /\ level \in IF op = "glog" THEN {LogSeverity} ELSE env.levels
    /\ mlen \in env.mlens
    /\ ncalls' = ncalls + 1
    /\ last' = [last EXCEPT ![t] = Begin(ncalls + 1, op, level, mlen)]
    /\ loc' = [loc EXCEPT ![t] =
                 [NoLocals EXCEPT !.lg = Global, !.call = ncalls + 1, !.level = level,
                                  !.mlen = mlen, !.op = op]]
    /\ pc' = [pc EXCEPT ![t] = "g_lock"]
    /\ UNCHANGED <<threshold, writer, env, reg, lastSet, current, archive, content, nfiles,
                   file, mutex, poisoned, accepted, lockOrder, rotations, bridgeLog, faults>>

\* GLOBAL_LOGGER.lock().unwrap() in the macro's if-let: the guard lives until the end
\* of the if-let, that is, for the whole logger call
RegistryLock(t) ==
    /\ pc[t] = "g_lock"
    /\ LockFree(reglock)
    /\ reglock' = t
    /\ pc' = [pc EXCEPT ![t] = "g_call"]
    /\ UNCHANGED <<threshold, writer, env, lastSet, current, archive, content, nfiles,
                   file, mutex, poisoned, loc, last, ncalls, accepted, lockOrder, rotations,
                   bridgeLog, faults, logger, dir, registry, newest>>

\* if let Some(ref logger) = *guard { logger.log(..) or logger.write_to_file(..) }:
\* nothing with an empty registry or a logger without rotating_writer; otherwise
\* write() on the registry's logger, starting with the filter
GlobalDispatch(t) ==
    /\ pc[t] = "g_call"
    /\ LET passes == /\ registry # NoLogger
                     /\ logger[Global].rotating_writer
                     /\ ShouldLog(loc[t].level, threshold)
       IN  /\ accepted' = IF passes THEN accepted \cup {loc[t].call} ELSE accepted
           /\ last' = [last EXCEPT ![t].thr = threshold, ![t].set = lastSet,
                                   ![t].accepted = passes, ![t].reached = registry]
           /\ pc' = [pc EXCEPT ![t] = IF passes THEN "lock" ELSE "g_unlock"]
    /\ UNCHANGED <<threshold, writer, env, reg, lastSet, current, archive, content, nfiles,
                   file, mutex, poisoned, loc, ncalls, lockOrder, rotations, bridgeLog,
                   faults>>

\* (a guard that is leaked instead of dropped)
ForgetGuard(holder) == holder

\* the guard of GLOBAL_LOGGER goes out of scope: the lock is free again
DropGuard(holder) == NoThread

\* the end of the macro's if-let
GlobalUnlock(t) ==
    /\ pc[t] = "g_unlock"
    /\ reglock' = DropGuard(reglock)
    /\ pc' = [pc EXCEPT ![t] = "idle"]
    /\ loc' = [loc EXCEPT ![t] = NoLocals]
    /\ last' = [last EXCEPT ![t].returned = TRUE]
    /\ UNCHANGED <<threshold, writer, env, lastSet, current, archive, content, nfiles,
                   file, mutex, poisoned, ncalls, accepted, lockOrder, rotations,
                   bridgeLog, faults, logger, dir, registry, newest>>

\* (a floor that also rejects MIN_SIZE itself)
TooSmallInclusive(max_size) == max_size <= MIN_SIZE

\* RotatingWriter::new, line 98: max_size < Self::MIN_SIZE
TooSmall(max_size) == max_size < MIN_SIZE

\* init_system_logger, lines 329-340: on Linux None when syslog::unix fails, on
\* Windows always Some; file_only has none
SystemLoggerOutcomes(mode) ==
    IF mode = "file_only" THEN {FALSE}
    ELSE IF env.platform = "linux" THEN BOOLEAN
    ELSE {TRUE}

\* init_global_logger_{file_only, system_only, file_and_system}, lines 493-520, up to
\* the first file-system call of the constructor: Logger::system_only builds at once;
\* the two others call RotatingWriter::new, which rejects a small max_size first
InitCall(t, mode, max_size, max_files) ==
    /\ "init" \in env.ops
    /\ t \in env.threads
    /\ pc[t] = "idle"
    /\ ncalls < env.calls
    /\ mode \in env.modes
    /\ max_size \in IF mode = "system_only" THEN {0} ELSE env.sizes
    /\ max_files \in IF mode = "system_only" THEN {0} ELSE env.counts
    /\ ncalls' = ncalls + 1
    /\ \E sys \in SystemLoggerOutcomes(mode) :
         LET rejected == mode # "system_only" /\ TooSmall(max_size) IN
         /\ last' = [last EXCEPT ![t] =
                       [Begin(ncalls + 1, "init", Debug, 0) EXCEPT
                            !.mode = mode,
                            !.max_size = max_size,
                            !.returned = rejected,
                            !.result = IF rejected THEN "InvalidInput" ELSE "Ok"]]
         /\ IF rejected
            THEN UNCHANGED <<pc, loc>>
            ELSE /\ loc' = [loc EXCEPT ![t] =
                              [NoLocals EXCEPT !.lg = Global, !.call = ncalls + 1,
                                               !.op = "init", !.mode = mode,
                                               !.max_size = max_size,
                                               !.max_files = max_files, !.sys = sys]]
                 /\ pc' = [pc EXCEPT ![t] = IF mode = "system_only" THEN "g_install"
                                            ELSE "new_mkdir"]
    /\ UNCHANGED <<threshold, writer, env, reg, lastSet, current, archive, content, nfiles,
                   file, mutex, poisoned, accepted, lockOrder, rotations, bridgeLog, faults>>

\* RotatingWriter::new, line 108: fs::create_dir_all(&dir)?
NewMkdir(t) ==
    /\ pc[t] = "new_mkdir"
    /\ \E ok \in Outcomes :
         /\ faults' = Fault(ok)
         /\ dir' = (dir \/ ok)
         /\ IF ok
            THEN /\ pc' = [pc EXCEPT ![t] = "new_open"]
                 /\ UNCHANGED <<loc, last>>
            ELSE /\ pc' = [pc EXCEPT ![t] = "idle"]
                 /\ loc' = [loc EXCEPT ![t] = NoLocals]
                 /\ last' = [last EXCEPT ![t].returned = TRUE, ![t].result = "Io",
                                         ![t].io_failed = TRUE]
    /\ UNCHANGED <<threshold, writer, env, lastSet, current, archive, content, nfiles,
                   file, mutex, poisoned, ncalls, accepted, lockOrder, rotations,
                   bridgeLog, logger, registry, reglock, newest>>

\* (an open that always starts a new, empty file under the name)
OpenTruncate(cur, n) == n + 1

\* create(true).append(true): the file the name is bound to, a new one if there is none
OpenCreate(cur, n) == IF cur = NoFile THEN n + 1 ELSE cur

\* RotatingWriter::new, line 110: OpenOptions::new().create(true).append(true).open()?
NewOpen(t) ==
    /\ pc[t] = "new_open"
    /\ \E ok \in Outcomes :
         /\ faults' = Fault(ok)
         /\ IF ok
            THEN /\ current' = OpenCreate(current, nfiles)
                 /\ nfiles' = IF current' > nfiles THEN current' ELSE nfiles
                 /\ loc' = [loc EXCEPT ![t].f = current']
                 /\ pc' = [pc EXCEPT ![t] = "g_install"]
                 /\ last' = last
            ELSE /\ pc' = [pc EXCEPT ![t] = "idle"]
                 /\ loc' = [loc EXCEPT ![t] = NoLocals]
                 /\ last' = [last EXCEPT ![t].returned = TRUE, ![t].result = "Io",
                                         ![t].io_failed = TRUE]
                 /\ UNCHANGED <<current, nfiles>>
    /\ UNCHANGED <<threshold, writer, env, reg, lastSet, archive, content, file, mutex,
                   poisoned, ncalls, accepted, lockOrder, rotations, bridgeLog>>

\* (an install that keeps a logger that is already there)
KeepFirst(old, new) == IF old = NoLogger THEN new ELSE old

\* *GLOBAL_LOGGER.lock().unwrap() = Some(logger): the new value replaces the old
Replace(old, new) == new

\* the RotatingWriter the constructor returns, lines 112-120, with the app_info and
\* system_logger Logger::file_only or Logger::file_and_system gave it
WriterOf(mode, max_size, max_files, sys) ==
    IF mode = "system_only" THEN NoWriter
    ELSE [max_size |-> max_size, max_files |-> max_files, system_logger |-> sys,
          app_info_len |-> IF mode = "file_only" THEN UnknownAppLen ELSE NamedAppLen]

\* lines 500, 506, 518: the constructed Logger is installed under GLOBAL_LOGGER's
\* lock; the Logger it replaces is dropped, and init_* returns Ok(())
RegistryInstall(t) ==
    /\ pc[t] = "g_install"
    /\ LockFree(reglock)
    /\ registry' = Replace(registry, loc[t].call)
    /\ newest' = [id |-> loc[t].call, rotating_writer |-> loc[t].mode # "system_only"]
    /\ LET installed == registry' = loc[t].call
           w == WriterOf(loc[t].mode, loc[t].max_size, loc[t].max_files, loc[t].sys)
       IN  /\ logger' = [logger EXCEPT ![Global] =
                            IF installed
                            THEN [live |-> TRUE,
                                  rotating_writer |-> loc[t].mode # "system_only",
                                  system_logger |-> loc[t].sys]
                            ELSE @]
           /\ writer' = [writer EXCEPT ![Global] = IF installed THEN w ELSE @]
           /\ file' = [file EXCEPT ![Global] = IF installed THEN loc[t].f ELSE @]
           /\ mutex' = [mutex EXCEPT ![Global] = IF installed THEN NoThread ELSE @]
           /\ poisoned' = [poisoned EXCEPT ![Global] = IF installed THEN FALSE ELSE @]
    /\ pc' = [pc EXCEPT ![t] = "idle"]
    /\ loc' = [loc EXCEPT ![t] = NoLocals]
    /\ last' = [last EXCEPT ![t].returned = TRUE]
    /\ UNCHANGED <<threshold, env, lastSet, current, archive, content, nfiles, ncalls,
                   accepted, lockOrder, rotations, bridgeLog, faults, dir, reglock>>

\* one step of thread t inside write()
Step(t) ==
    \/ Lock(t)
    \/ SizeCheck(t)
    \/ RemoveOldest(t)
    \/ ShiftExists(t)
    \/ ShiftRemove(t)
    \/ ShiftRename(t)
    \/ CurrentExists(t)
    \/ CurrentRemove(t)
    \/ CurrentRename(t)
    \/ RotateReturn(t)
    \/ Relock(t)
    \/ Reopen(t)
    \/ HeaderBody(t)
    \/ HeaderNewline(t)
    \/ Install(t)
    \/ WriteBody(t)
    \/ WriteNewline(t)

\* the steps of write(), by any thread
WriterSteps ==
    \/ \E t \in Threads : Lock(t)
    \/ \E t \in Threads : SizeCheck(t)
    \/ \E t \in Threads : RemoveOldest(t)
    \/ \E t \in Threads : ShiftExists(t)
    \/ \E t \in Threads : ShiftRemove(t)
    \/ \E t \in Threads : ShiftRename(t)
    \/ \E t \in Threads : CurrentExists(t)
    \/ \E t \in Threads : CurrentRemove(t)
    \/ \E t \in Threads : CurrentRename(t)
    \/ \E t \in Threads : RotateReturn(t)
    \/ \E t \in Threads : Relock(t)
    \/ \E t \in Threads : Reopen(t)
    \/ \E t \in Threads : HeaderBody(t)
    \/ \E t \in Threads : HeaderNewline(t)
    \/ \E t \in Threads : Install(t)
    \/ \E t \in Threads : WriteBody(t)
    \/ \E t \in Threads : WriteNewline(t)

\* the steps of a global macro around the logger call
GlobalSteps ==
    \/ \E t \in Threads : \E op \in {"glog", "gwrite"} : \E level \in LogLevel :
          \E mlen \in MessageLens : GlobalCall(t, op, level, mlen)
    \/ \E t \in Threads : RegistryLock(t)
    \/ \E t \in Threads : GlobalDispatch(t)
    \/ \E t \in Threads : GlobalUnlock(t)

\* the steps of init_global_logger_*
InitSteps ==
    \/ \E t \in Threads : \E mode \in Modes : \E max_size \in Sizes :
          \E max_files \in ArchiveIdx : InitCall(t, mode, max_size, max_files)
    \/ \E t \in Threads : NewMkdir(t)
    \/ \E t \in Threads : NewOpen(t)
    \/ \E t \in Threads : RegistryInstall(t)

\* loggers shared by threads: set_log_level and write_to_file
Next ==
    \/ \E level \in LogLevel : SetLevel(level)
    \/ \E t \in Threads : \E level \in LogLevel : \E mlen \in MessageLens :
          WriteCall(t, level, mlen)
    \/ WriterSteps

\* a shared Logger with all its methods
NextLogger ==
    \/ Next
    \/ \E t \in Threads : \E mlen \in MessageLens : LogCall(t, mlen)
    \/ \E t \in Threads : \E level \in LogLevel : PlatformLog(t, level)

\* set_log_level and platform_log
NextBridge ==
    \/ \E level \in LogLevel : SetLevel(level)
    \/ \E t \in Threads : \E level \in LogLevel : PlatformLog(t, level)

\* the global logger: init_* and the global macros
NextGlobal ==
    \/ InitSteps
    \/ GlobalSteps
    \/ WriterSteps

\* the global logger next to a shared Logger
NextBoth ==
    \/ Next
    \/ InitSteps
    \/ GlobalSteps

(***************************** specifications ******************************)
Env(threads, levels, mlens, calls, fault_budget, any_fault, history) ==
    [threads |-> threads, levels |-> levels, mlens |-> mlens, calls |-> calls,
     fault_budget |-> fault_budget, any_fault |-> any_fault, history |-> history,
     platform |-> "linux", ops |-> {"write_to_file"}, modes |-> {}, sizes |-> {},
     counts |-> {}, thresholds |-> levels]

\* one caller, no I/O failure, max_files from 0
InitSeq ==
    \E w \in Writers({MIN_SIZE}, 0..MaxArchives, {FALSE}) :
        InitWith(Env({1}, {Debug}, {70, 200}, SeqCalls, 0, FALSE, {"files", "order"}), w)
SpecSeq == InitSeq /\ [][Next]_vars

\* one caller, no I/O failure, every level and threshold
InitLevels ==
    \E w \in Writers({MIN_SIZE}, {MaxArchives}, {FALSE}) :
        InitWith(Env({1}, LogLevel, {200}, LevelCalls, 0, FALSE, {"files", "order", "set"}),
                 w)
SpecLevels == InitLevels /\ [][Next]_vars

\* two callers, no injected I/O failure
InitConc ==
    \E w \in Writers({MIN_SIZE}, 1..MaxArchives, {FALSE}) :
        InitWith(Env({1, 2}, {Debug}, {20, 200}, MaxCalls, 0, FALSE, {"order"}), w)
SpecConc == InitConc /\ [][Next]_vars

\* one caller, every I/O call may fail, with and without a system logger
InitFault ==
    \E w \in Writers({MIN_SIZE}, 1..MaxArchives, BOOLEAN) :
        InitWith(Env({1}, {Debug}, {200}, FaultCalls, MaxFaults, TRUE, {"files", "order"}), w)
SpecFault == InitFault /\ [][Next]_vars

\* one caller, every I/O call may fail, messages at Debug and Warning with the
\* threshold at Debug or raised to Warning
InitMarker ==
    \E w \in Writers({MIN_SIZE}, {MaxArchives}, {FALSE}) :
        InitWith([Env({1}, {Debug, Warning}, {200}, MarkerCalls, MaxFaults, TRUE, {"files"})
                    EXCEPT !.thresholds = {Warning}], w)
SpecMarker == InitMarker /\ [][Next]_vars

\* one caller, no I/O failure, message lengths that bring the file to max_size - 1,
\* to max_size exactly, and beyond; the writer of file_only, and the writer of
\* file_and_system with a long application name and no syslog connection
InitSize ==
    \E w \in Writers({MIN_SIZE}, {MaxArchives}, {FALSE}) :
        \E app_info_len \in {UnknownAppLen, LongAppLen} :
            InitWith(Env({1}, {Debug}, {69, 70, 200}, SizeCalls, 0, FALSE, {"files"}),
                     [w EXCEPT !.app_info_len = app_info_len])
SpecSize == InitSize /\ [][Next]_vars

\* two callers, up to MaxFaults injected I/O failures
Init ==
    \E w \in Writers({MIN_SIZE}, {MaxArchives}, {FALSE}) :
        InitWith(Env({1, 2}, {Debug}, {200}, MaxCalls, MaxFaults, FALSE, {}), w)
Spec == Init /\ [][Next]_vars

\* the Logger each constructor gives, with or without the system logger it asked for
SharedLoggers ==
    {[mode |-> m, sys |-> b] : m \in Modes, b \in BOOLEAN} \
        {[mode |-> "file_only", sys |-> TRUE]}

\* the Logger struct of such a Logger
LoggerStruct(k) ==
    [live |-> TRUE, rotating_writer |-> k.mode # "system_only", system_logger |-> k.sys]

\* one caller of a shared Logger of each kind on Linux, every level, thresholds below,
\* at and above Debug, no I/O failure; the directory fresh or left by an earlier run
InitLogger ==
    \E k \in SharedLoggers : \E disk \in {FreshDisk, UsedDisk} :
        /\ k.mode = "system_only" => disk = FreshDisk
        /\ InitState([Env({1}, LogLevel, {200}, LoggerCalls, 0, FALSE, {"files"})
                        EXCEPT !.ops = {"write_to_file", "log", "platform_log"},
                               !.thresholds = {Trace, Warning}],
                     LoggerStruct(k),
                     WriterOf(k.mode, MIN_SIZE, MaxArchives, k.sys),
                     IF k.mode = "system_only" THEN NoDisk ELSE disk)
SpecLogger == InitLogger /\ [][NextLogger]_vars

\* the system logger of either platform, reached through platform_log at every level
\* and threshold
InitBridge ==
    \E k \in SharedLoggers : \E platform \in {"linux", "windows"} :
        /\ k.mode = "system_only"
        /\ platform = "windows" => k.sys
        /\ InitState([Env({1}, LogLevel, {}, BridgeCalls, 0, FALSE, {})
                        EXCEPT !.platform = platform, !.ops = {"platform_log"}],
                     LoggerStruct(k), NoWriter, NoDisk)
SpecBridge == InitBridge /\ [][NextBridge]_vars

\* one caller of the global logger: init_* of every kind with sizes on either side of
\* the floor, global macros, up to MaxFaults failing I/O calls; the directory absent,
\* empty, or left by an earlier run
InitGlobal ==
    \E disk \in {NoDisk, EmptyDisk, UsedDisk} :
        InitState([Env({1}, {Debug}, {200}, GlobalCalls, MaxFaults, FALSE, {"files"})
                     EXCEPT !.ops = {"init", "glog", "gwrite"},
                            !.modes = Modes,
                            !.sizes = {MIN_SIZE - 1, MIN_SIZE},
                            !.counts = {MaxArchives}],
                  NoLoggerStruct, NoWriter, disk)
SpecGlobal == InitGlobal /\ [][NextGlobal]_vars

\* two callers of a shared Logger and of the global logger an earlier init_* call
\* installed, both on the directory an earlier run left, so that the first accepted
\* write of either rotates; init_* of the file-only kind, direct writes and global
\* macros, no I/O failure
InitBoth ==
    InitLoggers([Env({1, 2}, {Debug}, {200}, BothCalls, 0, FALSE, {})
                   EXCEPT !.ops = {"write_to_file", "init", "gwrite"},
                          !.modes = {"file_only"},
                          !.sizes = {MIN_SIZE},
                          !.counts = {MaxArchives}],
                LoggerStruct([mode |-> "file_only", sys |-> FALSE]),
                WriterOf("file_only", MIN_SIZE, MaxArchives, FALSE),
                EarlierLogger,
                UsedDisk)
SpecBoth == InitBoth /\ [][NextBoth]_vars

\* the steps of thread t inside a call: they are taken when the thread is scheduled
\* and, at a lock, when the lock is free
Progress(t) ==
    \/ Step(t)
    \/ RegistryLock(t)
    \/ GlobalDispatch(t)
    \/ GlobalUnlock(t)
    \/ NewMkdir(t)
    \/ NewOpen(t)
    \/ RegistryInstall(t)

\* every thread inside a call is scheduled again and its I/O steps return
SpecBothFair == SpecBoth /\ \A t \in Threads : WF_vars(Progress(t))

(******************************** claims ***********************************)
Quiescent == \A t \in env.threads : pc[t] = "idle"

ArchiveNames == {i \in ArchiveIdx : archive[i] # NoFile}

\* the two chunks of a rotation marker and of a message line
MarkerLine(c) ==
    <<Chunk(c, "hdr", "body", FormatLogLineLen(Debug, HeaderLen(writer[Shared].app_info_len))),
      Chunk(c, "hdr", "nl", 1)>>

MessageLine(c, level, mlen) ==
    <<Chunk(c, "msg", "body", FormatLogLineLen(level, mlen)), Chunk(c, "msg", "nl", 1)>>

\* a call of thread t has returned after finding the active file at or over max_size,
\* with max_files >= 1 and no I/O failure
RotatedCleanly(t) ==
    /\ writer[Shared].max_size >= MIN_SIZE
    /\ writer[Shared].max_files >= 1
    /\ last[t].call # 0
    /\ last[t].accepted
    /\ last[t].returned
    /\ last[t].seen_pos >= writer[Shared].max_size
    /\ ~last[t].io_failed

\* C1: when an accepted write finds the active file's size >= max_size and no I/O
\* call fails, then on return basename.1 holds exactly what the active file held
\* before the call and basename holds exactly the rotation marker followed by the
\* line of the triggering message (max_size >= 256, max_files >= 1).
C1_RotationArchivesAndRestarts ==
    \A t \in env.threads :
        RotatedCleanly(t) =>
            /\ archive[1] # NoFile
            /\ content[archive[1]] = last[t].pre_content[last[t].pre_current]
            /\ current # NoFile
            /\ content[current] =
                 MarkerLine(last[t].call)
                   \o MessageLine(last[t].call, last[t].level, last[t].mlen)

C1_Witness ==
    \E t \in env.threads :
        /\ RotatedCleanly(t)
        /\ last[t].seen_pos = writer[Shared].max_size
        /\ Len(content[archive[1]]) >= 4

\* C2: in every reachable state at most max_files archives basename.i (i >= 1)
\* exist and none has an index above max_files, for every max_files the constructor
\* accepts, 0 included.
C2_AtMostMaxFilesArchives ==
    /\ Cardinality({i \in ArchiveNames : i >= 1}) <= writer[Shared].max_files
    /\ \A i \in ArchiveNames : i <= writer[Shared].max_files

\* C3: from a fresh directory and with no I/O failure, after k <= max_files
\* rotations exactly basename.1 .. basename.k exist (so basename.1 .. basename.N
\* after N = max_files rotations); a further rotation leaves the N names, what
\* basename.N held is in no file any more, basename.(i+1) holds what basename.i
\* held and basename.1 what the active file held.
C3_ArchivesFillThenEvict ==
    LET N == writer[Shared].max_files IN
    (N >= 1 /\ Quiescent /\ faults = 0) =>
        /\ rotations <= N => ArchiveNames = 1..rotations
        /\ \A t \in env.threads :
             (rotations > N /\ last[t].rotated /\ last[t].returned) =>
                 LET pre(i) == last[t].pre_content[last[t].pre_archive[i]] IN
                 /\ ArchiveNames = 1..N
                 /\ \A i \in 1..(N - 1) : content[archive[i + 1]] = pre(i)
                 /\ content[archive[1]] = last[t].pre_content[last[t].pre_current]
                 /\ \A i \in 1..N : content[archive[i]] # pre(N)
                 /\ current # NoFile /\ content[current] # pre(N)

C3_Witness ==
    /\ writer[Shared].max_files >= 2
    /\ Quiescent
    /\ rotations = writer[Shared].max_files + 1
    /\ \E t \in env.threads : last[t].rotated /\ last[t].returned
    /\ ArchiveNames = 1..writer[Shared].max_files

\* C4: for concurrent callers and any interleaving, every line that reaches a file
\* with its newline is contiguous: the newline directly follows the text of the
\* same line of the same call, in the same file.
C4_LinesContiguous ==
    \A ino \in 1..nfiles :
        \A j \in 1..Len(content[ino]) :
            content[ino][j].part = "nl" =>
                /\ j > 1
                /\ content[ino][j - 1].part = "body"
                /\ content[ino][j - 1].call = content[ino][j].call
                /\ content[ino][j - 1].kind = content[ino][j].kind

C4_Witness ==
    /\ \A t \in env.threads : last[t].rotated /\ pc[t] \in {"wr_nl", "hdr_nl", "relock"}
    /\ \E ino \in 1..nfiles :
         \E j, k \in 1..Len(content[ino]) :
             /\ j < k
             /\ content[ino][j].part = "nl"
             /\ content[ino][k].part = "nl"
             /\ content[ino][j].call # content[ino][k].call

InCascade(t) ==
    pc[t] \in {"rot_rm_old", "rot_loop", "rot_rm_dst", "rot_mv", "cur_exists", "cur_rm",
               "cur_mv", "rot_done"}

\* from the size check that decided to rotate until the call's lines are appended
InRotation(t) ==
    \/ InCascade(t)
    \/ pc[t] \in {"relock", "reopen", "hdr_body", "hdr_nl", "install"}
    \/ pc[t] \in {"wr_body", "wr_nl"} /\ last[t].rotated

\* at a size check, a step of the cascade, or an append
AtFileStep(t) == pc[t] \notin {"idle", "lock", "relock", "panicked"}

\* C5: the lock totally orders size checks, rotations and appends: while one call
\* is between its decision to rotate and the append of its lines, no other call is
\* at a size check, a cascade step or an append (so no two cascades overlap).
C5_RotationExcludesOthers ==
    \A t1, t2 \in env.threads :
        (t1 # t2 /\ InRotation(t1)) => ~AtFileStep(t2)

\* C6: no stale handle across a rotation: whenever a call is at its size check or
\* at an append, the handle it uses refers to the file named basename.
C6_NoStaleHandle ==
    \A t \in env.threads :
        /\ pc[t] \in {"seek", "wr_body", "wr_nl"} => file[Shared] = current
        /\ pc[t] \in {"hdr_body", "hdr_nl"} => loc[t].f = current

\* C7: as long as no size check has found the active file at or over max_size (and
\* no I/O call has failed), the active file holds exactly one line per accepted
\* write and nothing else, in the order in which the calls took the lock.
C7_LinesInLockOrder ==
    (rotations = 0 /\ faults = 0) =>
        LET L == content[current] IN
        /\ current = file[Shared]
        /\ Len(L) <= 2 * Len(lockOrder)
        /\ Len(L) >= 2 * (Len(lockOrder) - 1)
        /\ \A j \in 1..Len(L) :
             /\ L[j].kind = "msg"
             /\ L[j].call = lockOrder[(j + 1) \div 2]
             /\ L[j].part = IF j % 2 = 1 THEN "body" ELSE "nl"
        /\ \A j, k \in 1..Len(lockOrder) : j # k => lockOrder[j] # lockOrder[k]
        /\ {lockOrder[j] : j \in 1..Len(lockOrder)} \subseteq accepted
        /\ Quiescent =>
             /\ Len(L) = 2 * Len(lockOrder)
             /\ {lockOrder[j] : j \in 1..Len(lockOrder)} = accepted

C7_Witness ==
    /\ rotations = 0
    /\ faults = 0
    /\ Quiescent
    /\ Len(lockOrder) >= 3
    /\ lockOrder[1] > lockOrder[2]
    /\ Len(content[current]) = 2 * Len(lockOrder)

Returned(t) == last[t].call # 0 /\ last[t].returned

\* the chunks of s from position n on
Suffix(s, n) == SubSeq(s, Len(s) - n + 1, Len(s))

\* C8 as stated: a write appends iff its level is at or above the threshold read at
\* the start of the call, and then it produces exactly one line in the file set
\* (two chunks); below the threshold it produces nothing.
C8_ExactlyOneLine ==
    \A t \in env.threads :
        Returned(t) =>
            last[t].msg_chunks + last[t].hdr_chunks =
                IF last[t].level >= last[t].thr THEN 2 ELSE 0

\* C8 as amended: with no I/O failure, a write below the threshold read at the
\* start of the call leaves the file set unchanged (no size check, no rotation); a
\* write at or above it appends exactly one message line, preceded by exactly one
\* rotation marker when the call rotates and by nothing otherwise.
C8_FilterDecidesOutput ==
    \A t \in env.threads :
        (Returned(t) /\ faults = 0) =>
            IF last[t].level >= last[t].thr
            THEN /\ last[t].msg_chunks = 2
                 /\ last[t].hdr_chunks = IF last[t].rotated THEN 2 ELSE 0
                 /\ file[Shared] # NoFile
                 /\ Len(content[file[Shared]]) >= 2
                 /\ Suffix(content[file[Shared]], 2) =
                      MessageLine(last[t].call, last[t].level, last[t].mlen)
                 /\ last[t].rotated =>
                      content[file[Shared]] =
                          MarkerLine(last[t].call)
                            \o MessageLine(last[t].call, last[t].level, last[t].mlen)
                 /\ ~last[t].rotated =>
                      content[file[Shared]] =
                          last[t].pre_content[file[Shared]]
                            \o MessageLine(last[t].call, last[t].level, last[t].mlen)
            ELSE /\ last[t].msg_chunks = 0
                 /\ last[t].hdr_chunks = 0
                 /\ ~last[t].rotated
                 /\ current = last[t].pre_current
                 /\ archive = last[t].pre_archive
                 /\ content = last[t].pre_content

C8_Witness ==
    \E t \in env.threads :
        /\ Returned(t)
        /\ last[t].thr = Warning
        /\ last[t].level = Error
        /\ last[t].rotated
        /\ last[t].hdr_chunks = 2
        /\ last[t].msg_chunks = 2

\* C9: logging never fails the caller: whatever I/O calls fail, no thread panics,
\* the mutex is never poisoned, and a thread inside write() can always take its
\* next step or waits for a lock whose holder can, so every call returns and the
\* writer stays usable.
C9_WriteNeverFailsCaller ==
    \A t \in env.threads :
        /\ pc[t] # "panicked"
        /\ ~poisoned[Shared]
        /\ pc[t] # "idle" =>
             \/ ENABLED Step(t)
             \/ /\ pc[t] \in {"lock", "relock"}
                /\ mutex[Shared] \in env.threads \ {t}
                /\ ENABLED Step(mutex[Shared])

C9_Witness ==
    \E t \in env.threads :
        /\ faults >= 1
        /\ \E k \in 1..Len(bridgeLog) : ~bridgeLog[k].sent
        /\ Returned(t)
        /\ last[t].call >= 3
        /\ last[t].accepted
        /\ ~last[t].io_failed
        /\ last[t].msg_chunks = 2

\* the report of call c's failed cascade, as the system logger receives it
RotateReport(c, sent) ==
    [level |-> Error, severity |-> LOG_ERR, what |-> "rotate", call |-> c,
     locked |-> NoThread, sent |-> sent]

ReportsOf(c, what) == {k \in 1..Len(bridgeLog) : bridgeLog[k].call = c /\ bridgeLog[k].what = what}

CascadeFailureReported(t) ==
    IF writer[Shared].system_logger
    THEN /\ Cardinality(ReportsOf(last[t].call, "rotate")) = 1
         /\ \A k \in ReportsOf(last[t].call, "rotate") :
              bridgeLog[k] = RotateReport(last[t].call, bridgeLog[k].sent)
    ELSE bridgeLog = <<>>

\* C10 as stated: when the cascade fails, the failure is reported at Error severity
\* if there is a bridge and dropped otherwise, and in both cases the call reopens
\* basename and appends the triggering message.
C10_MessageNeverLost ==
    \A t \in env.threads :
        (Returned(t) /\ last[t].rot_err) =>
            /\ CascadeFailureReported(t)
            /\ last[t].msg_chunks = 2
            /\ current # NoFile
            /\ Len(content[current]) >= 2
            /\ Suffix(content[current], 2) =
                 MessageLine(last[t].call, last[t].level, last[t].mlen)

\* C10 as amended: when the cascade fails, the failure is reported once at Error
\* severity if there is a bridge and dropped otherwise; the call goes on to reopen
\* basename; if the reopen succeeds and the write of the message does not fail, the
\* message is appended to the active file, which, if basename existed when the call
\* started, is still that file, at or over max_size; if the reopen fails, nothing
\* is appended.
C10_MessageKeptIfReopened ==
    \A t \in env.threads :
        (Returned(t) /\ last[t].rot_err) =>
            /\ CascadeFailureReported(t)
            /\ (~last[t].reopen_err /\ ~last[t].msg_err) =>
                 /\ last[t].msg_chunks = 2
                 /\ current # NoFile
                 /\ file[Shared] = current
                 /\ Suffix(content[current], 2) =
                      MessageLine(last[t].call, last[t].level, last[t].mlen)
                 /\ last[t].pre_current # NoFile =>
                      /\ current = last[t].pre_current
                      /\ Size(current) >= writer[Shared].max_size + last[t].mlen
            /\ last[t].reopen_err =>
                 /\ last[t].msg_chunks = 0
                 /\ last[t].hdr_chunks = 0
                 /\ content = last[t].pre_content

C10_Witness ==
    \E t \in env.threads :
        /\ Returned(t)
        /\ last[t].rot_err
        /\ writer[Shared].system_logger
        /\ ~last[t].reopen_err
        /\ last[t].msg_chunks = 2
        /\ ReportsOf(last[t].call, "rotate") # {}
        /\ current = last[t].pre_current
        /\ Size(current) >= writer[Shared].max_size

\* C14: the threshold is the rank of the level of the latest completed set_level,
\* or the rank of Debug if there was none; a call passes the filter iff the rank of
\* its level is at or above the threshold, for each of the six levels; and the
\* threshold a call reads is the one set by the latest set_level completed before
\* the call started.
C14_ThresholdIsLatestSetLevel ==
    /\ threshold = IF lastSet = NoLevel THEN Debug ELSE lastSet
    /\ \A level \in LogLevel : ShouldLog(level, threshold) <=> level >= threshold
    /\ \A t \in env.threads :
         last[t].call # 0 =>
             /\ last[t].thr = IF last[t].set = NoLevel THEN Debug ELSE last[t].set
             /\ last[t].accepted <=> last[t].level >= last[t].thr
             /\ (last[t].returned /\ ~last[t].accepted) => last[t].msg_chunks = 0
             /\ (last[t].returned /\ last[t].accepted /\ faults = 0) =>
                  last[t].msg_chunks = 2

C14_Witness ==
    \E t \in env.threads :
        /\ lastSet = Trace
        /\ last[t].set = Warning
        /\ last[t].thr = Warning
        /\ last[t].level = Warning
        /\ last[t].returned
        /\ last[t].msg_chunks = 2
        /\ last[t].call >= 2

\* the latest call of thread t was an init_* call, it has returned, and nothing was
\* called since
InitReturned(t) ==
    /\ last[t].op = "init"
    /\ last[t].returned
    /\ last[t].call = ncalls

\* the file set and the registry are as the latest call of t found them
NothingTouched(t) ==
    /\ dir = last[t].pre_dir
    /\ current = last[t].pre_current
    /\ archive = last[t].pre_archive
    /\ content = last[t].pre_content
    /\ registry = last[t].pre_registry
    /\ Len(bridgeLog) = last[t].pre_bridge

\* C11: constructing a writer with max_size < 256 fails with the configuration error
\* and creates no directory and no file, for every such value; with max_size >= 256
\* construction does not fail with that error.
C11_SmallMaxSizeRejected ==
    \A t \in env.threads :
        (InitReturned(t) /\ last[t].mode # "system_only") =>
            /\ last[t].max_size < 256 =>
                 /\ last[t].result = "InvalidInput"
                 /\ NothingTouched(t)
            /\ last[t].max_size >= 256 => last[t].result # "InvalidInput"

C11_Witness ==
    \E t \in env.threads :
        /\ InitReturned(t)
        /\ last[t].mode = "file_only"
        /\ last[t].max_size = 255
        /\ last[t].result = "InvalidInput"
        /\ ~dir
        /\ current = NoFile

\* C12: a writer that has been constructed and not written to leaves an existing
\* active file with no byte added: the constructor creates the directory and
\* basename when absent, basename then being empty, keeps an existing basename as it
\* is, writes no marker, and renames or removes nothing, whatever max_files is.
C12_ConstructionLeavesFileAsIs ==
    \A t \in env.threads :
        (InitReturned(t) /\ last[t].mode # "system_only" /\ last[t].result = "Ok") =>
            /\ dir
            /\ current # NoFile
            /\ file[Global] = current
            /\ last[t].pre_current = NoFile => content[current] = <<>>
            /\ last[t].pre_current # NoFile => current = last[t].pre_current
            /\ content = last[t].pre_content
            /\ archive = last[t].pre_archive
            /\ Len(bridgeLog) = last[t].pre_bridge

C12_Witness ==
    \E t \in env.threads :
        /\ InitReturned(t)
        /\ last[t].mode = "file_and_system"
        /\ last[t].result = "Ok"
        /\ ~last[t].pre_dir
        /\ dir
        /\ current # NoFile
        /\ content[current] = <<>>

\* the latest call of thread t was a global macro and it is past its look at the
\* registry
GlobalReached(t) ==
    /\ last[t].op \in {"glog", "gwrite"}
    /\ pc[t] \notin {"g_lock", "g_call"}

\* C18: the registry is empty until the first init_* succeeds and then holds the
\* Logger of the latest init_* that succeeded; a global macro reaches that Logger
\* and no other; an init_* whose construction fails returns the error and leaves
\* the registry as it was; a global macro on an empty registry does nothing.
C18_RegistryHoldsNewest ==
    /\ registry = newest.id
    /\ logger[Global].live <=> registry # NoLogger
    /\ logger[Global].rotating_writer = newest.rotating_writer
    /\ \A t \in env.threads :
         /\ (InitReturned(t) /\ last[t].result = "Ok") => registry = last[t].call
         /\ (InitReturned(t) /\ last[t].result # "Ok") =>
              registry = last[t].pre_registry
         /\ GlobalReached(t) =>
              /\ last[t].reached = newest.id
              /\ last[t].accepted <=>
                   (newest.rotating_writer /\ last[t].level >= last[t].thr)
              /\ (newest.id = NoLogger /\ pc[t] = "idle") => NothingTouched(t)
              /\ (last[t].accepted /\ pc[t] = "idle" /\ ~last[t].io_failed) =>
                   /\ last[t].msg_chunks = 2
                   /\ Suffix(content[file[Global]], 2) =
                        MessageLine(last[t].call, last[t].level, last[t].mlen)

C18_Witness ==
    \E t \in env.threads :
        /\ GlobalReached(t)
        /\ pc[t] = "idle"
        /\ last[t].call = 3
        /\ last[t].reached = 2
        /\ ~newest.rotating_writer
        /\ current # NoFile
        /\ last[t].pre_registry = 2
        /\ NothingTouched(t)

\* Inodes are numbered in the order reopen() creates them, so a larger number is a
\* file created later; nfiles is the newest one.
CreatedInOrder ==
    /\ \A i, j \in ArchiveNames : i < j => archive[j] < archive[i]
    /\ \A i \in ArchiveNames : current # NoFile => archive[i] < current

\* a step that changes a file's content appends to the newest file, and to no other
AppendsToNewest ==
    \A ino \in Inodes :
        content'[ino] # content[ino] =>
            /\ ino = nfiles'
            /\ Len(content'[ino]) = Len(content[ino]) + 1
            /\ SubSeq(content'[ino], 1, Len(content[ino])) = content[ino]

\* C13: in every state the archives are ordered by age: for existing archives
\* basename.i and basename.j with i < j every line of basename.i was appended after
\* every line of basename.j, and every line of the active file after every line of
\* every archive, also after cascades that stopped on a failed rename. In the
\* model: a file is only appended to while it is the newest file created, and the
\* files sit at the names in the order of their creation, in every interleaving.
C13_ArchivesOrderedByAge == [] CreatedInOrder /\ [][AppendsToNewest]_vars

C13_Witness ==
    \E t \in env.threads :
        /\ Returned(t)
        /\ last[t].rot_err
        /\ ArchiveNames = {2}
        /\ content[archive[2]] # <<>>
        /\ current # NoFile
        /\ last[t].msg_chunks = 2
        /\ Len(content[current]) >= 4

\* rotate() of thread t has failed on a rename, and the call is still going on
CascadeStopped(t) ==
    /\ pc[t] \in {"rot_done", "relock", "reopen", "hdr_body", "hdr_nl", "install",
                  "wr_body", "wr_nl"}
    /\ loc[t].err

\* C20: if a rename of the shifting loop (of basename.i, i >= 1) or the rename of
\* the active file (i = 0) fails, the cascade stops there: no later delete or rename
\* happens, so the archives up to index i and the active file are as they were
\* when the call started, no byte is written by the cascade, and rotate returns
\* the error; archives above i may have been shifted or removed (a gap).
C20_FailedRenameStopsCascade ==
    \A t \in env.threads :
        /\ CascadeStopped(t) =>
             /\ \A j \in 1..loc[t].i : archive[j] = last[t].pre_archive[j]
             /\ pc[t] \in {"rot_done", "relock", "reopen"} =>
                  /\ current = last[t].pre_current
                  /\ content = last[t].pre_content
             /\ pc[t] # "rot_done" => last[t].rot_err
             /\ loc[t].i = 0 => current # NoFile \/ pc[t] \notin {"rot_done", "relock", "reopen"}
        /\ (pc[t] \in {"relock", "reopen", "hdr_body", "hdr_nl", "install"}
              /\ last[t].rot_err) => loc[t].err

C20_Witness ==
    \E t \in env.threads :
        /\ pc[t] = "relock"
        /\ loc[t].err
        /\ loc[t].i = 1
        /\ last[t].rot_err
        /\ archive[1] # NoFile
        /\ archive[1] = last[t].pre_archive[1]
        /\ current = last[t].pre_current

\* the three host severities of the table, as each backend names them
Informational == {LOG_INFO, EVENTLOG_INFORMATION_TYPE}
WarningSeverity == {LOG_WARNING, EVENTLOG_WARNING_TYPE}
ErrorSeverity == {LOG_ERR, EVENTLOG_ERROR_TYPE}

\* the severities of the host's own backend
BackendSeverities ==
    IF env.platform = "linux" THEN {LOG_INFO, LOG_WARNING, LOG_ERR}
    ELSE {EVENTLOG_INFORMATION_TYPE, EVENTLOG_WARNING_TYPE, EVENTLOG_ERROR_TYPE}

\* C15: every report that reaches the system logger carries the host severity of
\* the table, on syslog and on the Windows event log: Trace, Debug and Info are
\* informational, Warning is warning, Error and Fatal are error.
C15_SeverityTable ==
    \A k \in 1..Len(bridgeLog) :
        LET r == bridgeLog[k] IN
        /\ r.severity \in BackendSeverities
        /\ r.level \in {Trace, Debug, Info} => r.severity \in Informational
        /\ r.level = Warning => r.severity \in WarningSeverity
        /\ r.level \in {Error, Fatal} => r.severity \in ErrorSeverity

C15_Witness ==
    /\ env.platform = "windows"
    /\ Len(bridgeLog) = 2
    /\ bridgeLog[1].level = Info
    /\ bridgeLog[1].severity = EVENTLOG_INFORMATION_TYPE
    /\ bridgeLog[2].level = Fatal
    /\ bridgeLog[2].severity = EVENTLOG_ERROR_TYPE

\* the files are the ones the call of thread t started from
FilesAsBefore(t) ==
    /\ current = last[t].pre_current
    /\ archive = last[t].pre_archive
    /\ content = last[t].pre_content
    /\ file[Shared] = last[t].pre_file

\* what write_to_file(level, message) has done when the call of thread t has
\* returned, with no I/O failure: nothing without a writer or below the threshold;
\* otherwise the message line at that level ends the active file, after a rotation
\* if the file was full and in the same file if not; the bridge is never called
WriteToFileEffect(t, level) ==
    /\ last[t].accepted = (logger[Shared].rotating_writer /\ level >= last[t].thr)
    /\ Len(bridgeLog) = last[t].pre_bridge
    /\ IF last[t].accepted
       THEN /\ current # NoFile
            /\ Len(content[current]) >= 2
            /\ Suffix(content[current], 2) = MessageLine(last[t].call, level, last[t].mlen)
            /\ last[t].rotated = (last[t].seen_pos >= writer[Shared].max_size)
            /\ IF last[t].rotated
               THEN /\ archive[1] = last[t].pre_current
                    /\ content[archive[1]] = last[t].pre_content[last[t].pre_current]
                    /\ Len(content[current]) = 4
               ELSE /\ current = last[t].pre_current
                    /\ archive = last[t].pre_archive
                    /\ content = [last[t].pre_content EXCEPT ![current] =
                                    @ \o MessageLine(last[t].call, level, last[t].mlen)]
       ELSE FilesAsBefore(t)

\* C16: Logger::log does exactly what write_to_file does at Debug severity: both
\* calls have the same effect for their level, log is a no-op when the Logger has
\* no writer (system-only mode), and in no mode and at no threshold does it reach
\* the bridge (no I/O failure).
C16_LogIsWriteAtDebug ==
    \A t \in env.threads :
        Returned(t) =>
            /\ last[t].op = "log" =>
                 /\ last[t].level = Debug
                 /\ WriteToFileEffect(t, Debug)
                 /\ ~logger[Shared].rotating_writer => FilesAsBefore(t)
            /\ last[t].op = "write_to_file" => WriteToFileEffect(t, last[t].level)

C16_Witness ==
    \E t \in env.threads :
        /\ Returned(t)
        /\ last[t].op = "log"
        /\ last[t].accepted
        /\ last[t].rotated
        /\ logger[Shared].system_logger
        /\ bridgeLog = <<>>
        /\ Suffix(content[current], 2) = MessageLine(last[t].call, Debug, last[t].mlen)

\* C17: platform_log(level, message) makes exactly one report to the bridge iff the
\* Logger has a bridge and the level is at or above the threshold, and none
\* otherwise; it never changes the files, the writer's handle or the writer's lock.
C17_PlatformLogOnlyBridge ==
    \A t \in env.threads :
        (Returned(t) /\ last[t].op = "platform_log") =>
            LET passes == logger[Shared].system_logger /\ last[t].level >= last[t].thr
                mine == ReportsOf(last[t].call, "platform_log")
            IN  /\ Cardinality(mine) = IF passes THEN 1 ELSE 0
                /\ Len(bridgeLog) = last[t].pre_bridge + Cardinality(mine)
                /\ \A k \in mine : /\ k = Len(bridgeLog)
                                    /\ bridgeLog[k].level = last[t].level
                /\ FilesAsBefore(t)
                /\ mutex[Shared] = NoThread
                /\ ~poisoned[Shared]

C17_Witness ==
    \E t \in env.threads :
        /\ Returned(t)
        /\ last[t].op = "platform_log"
        /\ last[t].level = Warning
        /\ last[t].thr = Warning
        /\ logger[Shared].rotating_writer
        /\ current # NoFile
        /\ content[current] # <<>>
        /\ Len(bridgeLog) = last[t].pre_bridge + 1
        /\ bridgeLog[Len(bridgeLog)].what = "platform_log"

\* thread t waits for a lock that thread u holds
Waits(t, u) ==
    \/ pc[t] \in {"lock", "relock"} /\ mutex[loc[t].lg] = u
    \/ pc[t] \in {"g_lock", "g_install"} /\ reglock = u

\* no thread waits for a lock it holds, and no two threads wait for each other
NoWaitCycle ==
    \A t, u \in Threads : ~(Waits(t, u) /\ Waits(u, t))

\* C19: there is no deadlock between GLOBAL_LOGGER's lock and the writer's lock, nor
\* inside the writer: with threads issuing global macros, direct writes on a shared
\* Logger and init_* calls in any interleaving, with rotations, no thread waits for
\* a lock it holds, no cycle of waits is reached, and every call that has started
\* returns.
C19_EveryCallReturns ==
    /\ [] NoWaitCycle
    /\ \A t \in Threads : [](pc[t] # "idle" => <>(pc[t] = "idle"))

C19_Witness ==
    \E t, u \in Threads :
        /\ pc[t] = "g_lock"
        /\ reglock = u
        /\ pc[u] = "relock"
        /\ loc[u].lg = Global
        /\ mutex[Global] = NoThread
        /\ rotations > 0 \/ archive[2] # NoFile

\* the reports the writer makes of its own failures
WriterReports == {"rotate", "reopen_file", "reopen"}

\* C21 as stated: no held lock spans a bridge call: whenever the writer reports a
\* rotation failure or a reopen failure to the system logger, the reporting thread
\* does not hold the writer's file lock (one caller, so a held lock is its own).
C21_NoLockAcrossReport ==
    \A k \in 1..Len(bridgeLog) :
        bridgeLog[k].what \in WriterReports => bridgeLog[k].locked = NoThread

\* thread t is about to seek, write, delete or rename
AtFileIO(t) ==
    pc[t] \in {"seek", "rot_rm_old", "rot_rm_dst", "rot_mv", "cur_rm", "cur_mv", "reopen",
               "hdr_body", "hdr_nl", "wr_body", "wr_nl"}

\* C22 as stated: GLOBAL_LOGGER's lock is never held around file I/O: while a thread
\* in a global macro holds the registry lock it is at no seek, write, rename or
\* delete and does not take the writer's lock; no thread holds both locks at once.
C22_RegistryLockNotAroundIO ==
    \A t \in env.threads :
        reglock = t =>
            /\ ~AtFileIO(t)
            /\ pc[t] \notin {"lock", "relock"}
            /\ mutex[Global] # t

\* inode ino still has a name: basename or an archive name
Named(ino) == ino = current \/ \E i \in ArchiveIdx : archive[i] = ino

\* every archive name the writer may use is taken
ArchivesFull == \A i \in 1..writer[Shared].max_files : archive[i] # NoFile

\* C23 as stated: with concurrent writers and no I/O failure, one overflow runs one
\* cascade and writes one marker: no two threads are inside a cascade at once, a
\* file holds at most one marker, at its head, and when all calls have returned a
\* file with lines has lost its name only by eviction, with every archive name taken
\* (so what was just archived to basename.1 was not deleted by a second cascade).
C23_OneCascadePerOverflow ==
    /\ \A t1, t2 \in env.threads : t1 # t2 => ~(InCascade(t1) /\ InCascade(t2))
    /\ \A ino \in 1..nfiles : \A k \in 1..Len(content[ino]) :
          content[ino][k].kind = "hdr" => k <= 2
    /\ Quiescent =>
          \A ino \in 1..nfiles : (content[ino] # <<>> /\ ~Named(ino)) => ArchivesFull

\* what a reader gets from the files basename.i down to basename.1 and then basename
RECURSIVE ReadFrom(_)
ReadFrom(i) ==
    IF i = 0
    THEN IF current = NoFile THEN <<>> ELSE content[current]
    ELSE (IF archive[i] = NoFile THEN <<>> ELSE content[archive[i]]) \o ReadFrom(i - 1)

\* everything appended so far, to files that still have a name or not: the files in
\* the order of their creation
RECURSIVE EverAppended(_)
EverAppended(n) == IF n = 0 THEN <<>> ELSE EverAppended(n - 1) \o content[n]

IsSuffix(s, all) ==
    /\ Len(s) <= Len(all)
    /\ SubSeq(all, Len(all) - Len(s) + 1, Len(all)) = s

\* the place of a chunk within its call: marker text, newline, message text, newline
ChunkRank(ch) ==
    (IF ch.kind = "hdr" THEN 0 ELSE 2) + (IF ch.part = "body" THEN 1 ELSE 2)

\* with one caller the calls are numbered in the order they are made, so this is
\* the order in which the chunks were appended
AppendedBefore(a, b) ==
    a.call < b.call \/ (a.call = b.call /\ ChunkRank(a) < ChunkRank(b))

\* C24: with one caller, no I/O failure and a fresh directory, no line is lost except
\* by eviction: in every state, reading basename.N .. basename.1 and then basename
\* gives a contiguous suffix of everything appended so far, each chunk once and in
\* the order of appending, and everything appended is one message line per accepted
\* call that has returned (plus the rotation markers).
C24_FilesAreSuffixOfAppends ==
    LET all == EverAppended(nfiles)
        read == ReadFrom(MaxArchives + 1)
    IN  /\ IsSuffix(read, all)
        /\ \A j, k \in 1..Len(all) : j < k => AppendedBefore(all[j], all[k])
        /\ Quiescent =>
             {all[j].call : j \in {k \in 1..Len(all) : all[k].kind = "msg"}} = accepted

C24_Witness ==
    /\ Quiescent
    /\ writer[Shared].max_files = 2
    /\ ArchiveNames = {1, 2}
    /\ \E ino \in 1..nfiles : content[ino] # <<>> /\ ~Named(ino)
    /\ Len(content[current]) >= 4
    /\ ReadFrom(MaxArchives + 1) # EverAppended(nfiles)

\* the size of the file behind the stored handle when the call of thread t started
SizeAtStart(t) == SumLen(last[t].pre_content[last[t].pre_file])

\* the call of thread t started with a handle that no longer names basename: the
\* handle an earlier failed reopen left in place
StartedStale(t) ==
    /\ last[t].call # 0
    /\ last[t].op = "write_to_file"
    /\ last[t].pre_file # NoFile
    /\ last[t].pre_file # last[t].pre_current

\* thread t's call has been accepted and is past its size check
PastSizeCheck(t) == last[t].accepted /\ pc[t] \notin {"lock", "seek", "panicked"}

\* a failed reopen ends the call with nothing appended and the handle as it was, on a
\* file at or over max_size
FailedReopenKeepsHandle(t) ==
    (Returned(t) /\ last[t].reopen_err) =>
        /\ last[t].msg_chunks = 0
        /\ last[t].hdr_chunks = 0
        /\ content = last[t].pre_content
        /\ file[Shared] # NoFile
        /\ file[Shared] = last[t].pre_file
        /\ Size(file[Shared]) >= writer[Shared].max_size

\* C25 as stated: if the reopen after the cascade fails, the write returns without
\* appending the message anywhere and the stored handle stays the pre-rotation
\* handle; therefore every later accepted write runs the rotation cascade again
\* (until a reopen succeeds and the handle names basename again).
C25_EveryLaterWriteRotates ==
    \A t \in env.threads :
        /\ FailedReopenKeepsHandle(t)
        /\ (StartedStale(t) /\ PastSizeCheck(t)) => last[t].rotated

\* C25 as amended: as stated, for every later accepted write whose size check reads
\* the size of the handle's file; a size check whose seek fails takes the size for
\* 0, does not rotate, and the message is appended through the stale handle.
C25_LaterWriteRotatesIfSeekWorks ==
    \A t \in env.threads :
        /\ FailedReopenKeepsHandle(t)
        /\ StartedStale(t) => SizeAtStart(t) >= writer[Shared].max_size
        /\ (StartedStale(t) /\ PastSizeCheck(t)) =>
             /\ last[t].rotated = (last[t].seen_pos = SizeAtStart(t))
             /\ ~last[t].rotated => last[t].seen_pos = 0

C25_Witness ==
    \E t \in env.threads :
        /\ Returned(t)
        /\ StartedStale(t)
        /\ last[t].rotated
        /\ ~last[t].reopen_err
        /\ last[t].msg_chunks = 2
        /\ file[Shared] = current
        /\ archive[2] = last[t].pre_file

\* the call of thread t has returned after a rotation whose reopen succeeded
ReopenedAfterRotation(t) ==
    /\ Returned(t)
    /\ last[t].accepted
    /\ last[t].rotated
    /\ ~last[t].reopen_err

\* the marker of thread t's call, at Debug severity, sits in the active file directly
\* before what the call appended of its message
MarkerBeforeMessage(t) ==
    LET L == content[file[Shared]]
        n == last[t].msg_chunks
    IN  /\ last[t].hdr_chunks = 2
        /\ Len(L) >= n + 2
        /\ SubSeq(L, Len(L) - n - 1, Len(L) - n) = MarkerLine(last[t].call)
        /\ \A k \in (Len(L) - n + 1)..Len(L) :
              L[k].call = last[t].call /\ L[k].kind = "msg"

\* C26 as stated: the rotation marker is not subject to the level filter: whenever an
\* accepted write triggers a rotation and the reopen succeeds, a marker line at
\* Debug severity is appended directly before the triggering message, also with the
\* threshold above Debug and also when the cascade failed.
C26_MarkerAlwaysWritten ==
    \A t \in env.threads : ReopenedAfterRotation(t) => MarkerBeforeMessage(t)

\* C26 as amended: the same, provided the two writes of the marker (its text and its
\* newline) succeed; their errors are ignored, so after a failed one the message
\* follows with no marker or with a marker that has no newline.
C26_MarkerWrittenUnfiltered ==
    \A t \in env.threads :
        ReopenedAfterRotation(t) =>
            /\ ~last[t].hdr_err => MarkerBeforeMessage(t)
            /\ last[t].hdr_err => last[t].hdr_chunks < 2
            /\ (~last[t].hdr_err /\ ~last[t].msg_err) =>
                 Suffix(content[file[Shared]], 4) =
                     MarkerLine(last[t].call)
                       \o MessageLine(last[t].call, last[t].level, last[t].mlen)

C26_Witness ==
    \E t \in env.threads :
        /\ ReopenedAfterRotation(t)
        /\ last[t].thr = Warning
        /\ last[t].level = Warning
        /\ last[t].rot_err
        /\ ~last[t].hdr_err
        /\ last[t].msg_chunks = 2
        /\ MarkerBeforeMessage(t)
        /\ MarkerLine(last[t].call)[1].len = FormatLogLineLen(Debug, HeaderLen(UnknownAppLen))

\* the bytes a message of length mlen takes in the file at Debug, newline included
LineBytes(mlen) == FormatLogLineLen(Debug, mlen) + 1

\* the longest line a call of the scenario appends
LongestLine == LineBytes(200)

\* the bytes of the rotation marker, newline included
MarkerBytes == FormatLogLineLen(Debug, HeaderLen(writer[Shared].app_info_len)) + 1

\* the size check of thread t's call read the size the file had when the call
\* started and the call rotates iff that size is at or over max_size; a call that
\* does not rotate appends to the active file, which is below max_size
DecidedBySizeBefore(t) ==
    LET max == writer[Shared].max_size IN
    /\ PastSizeCheck(t) =>
         /\ last[t].seen_pos = SizeAtStart(t)
         /\ last[t].rotated = (last[t].seen_pos >= max)
    /\ (pc[t] = "wr_body" /\ ~last[t].rotated) =>
         /\ file[Shared] = current
         /\ Size(current) < max
    /\ (Returned(t) /\ last[t].accepted /\ ~last[t].rotated) =>
         Size(current) = last[t].seen_pos + LineBytes(last[t].mlen)

====
